---- MODULE Spec2Model ----
(***************************************************************************)
(* Rainy-label generator for KNMI radar images (preprocess.py).            *)
(*                                                                         *)
(* A grid (numpy 2-D array) is a sequence of rows, each a sequence of      *)
(* integers; g[r][c] with r, c counted from 1 is numpy's g[r-1][c-1].      *)
(* A boolean array is a grid of 0/1, as numpy treats it in arithmetic.     *)
(***************************************************************************)
EXTENDS Integers, Sequences, FiniteSets

(***************************************************************************)
(* Array helpers                                                           *)
(***************************************************************************)
Rows(g) == Len(g)

Cols(g) == Len(g[1])

Cells(g) == (1..Rows(g)) \X (1..Cols(g))

RECURSIVE SumOver(_, _)
\* sum of f over the finite set S
SumOver(S, f) ==
    IF S = {} THEN 0
    ELSE LET x == CHOOSE y \in S : TRUE IN f[x] + SumOver(S \ {x}, f)

\* np.sum(a): the sum of all cells
np_sum(a) ==
    LET rowsum[r \in 1..Rows(a)] ==
            SumOver(1..Cols(a), [c \in 1..Cols(a) |-> a[r][c]])
    IN  SumOver(1..Rows(a), rowsum)

(***************************************************************************)
(* read_radar_file: the stored image with out-of-image pixels zeroed       *)
(***************************************************************************)
\* image[image == value] = 0
ZeroWhereEqual(image, value) ==
    [r \in 1..Rows(image) |->
        [c \in 1..Cols(image) |->
            IF image[r][c] = value THEN 0 ELSE image[r][c]]]

\* read_radar_file without the check of the first pixel
read_radar_file_SentinelOnly(image_data, ooi_value) ==
    ZeroWhereEqual(image_data, ooi_value)

\* the body of read_radar_file given the two datasets read from the file
read_radar_file(image_data, ooi_value) ==
    LET image1 == ZeroWhereEqual(image_data, ooi_value)
    IN  ZeroWhereEqual(image1, image1[1][1])

(***************************************************************************)
(* has_clutter                                                             *)
(*                                                                         *)
(* np.gradient converts an integer image to float64 and uses central       *)
(* differences (f[i+1] - f[i-1]) / 2 in the interior and the one-sided     *)
(* differences f[1] - f[0], f[-1] - f[-2] at the two ends of an axis; it   *)
(* raises ValueError when an axis has fewer than 2 elements.  The halves   *)
(* are exact in float64, so the model keeps TWICE the gradient in integers *)
(* and compares 4 * magnitude_squared with 4 * threshold**2.               *)
(***************************************************************************)
GradientDefined(image) == Rows(image) >= 2 /\ Cols(image) >= 2

\* 2 * gx[r][c]: np.gradient along axis 0 (rows)
Gx2(image, r, c) ==
    IF r = 1 THEN 2 * (image[2][c] - image[1][c])
    ELSE IF r = Rows(image) THEN 2 * (image[r][c] - image[r - 1][c])
    ELSE image[r + 1][c] - image[r - 1][c]

\* 2 * gy[r][c]: np.gradient along axis 1 (columns)
Gy2(image, r, c) ==
    IF c = 1 THEN 2 * (image[r][2] - image[r][1])
    ELSE IF c = Cols(image) THEN 2 * (image[r][c] - image[r][c - 1])
    ELSE image[r][c + 1] - image[r][c - 1]

\* 4 * magnitude_squared[r][c]
MagnitudeSquared4(image, r, c) ==
    Gx2(image, r, c) * Gx2(image, r, c) + Gy2(image, r, c) * Gy2(image, r, c)

\* clutter_pixels = magnitude_squared > threshold**2, as the set of its true cells
ClutterPixels(image, threshold) ==
    {p \in Cells(image) :
        MagnitudeSquared4(image, p[1], p[2]) > 4 * threshold * threshold}

\* the return statement with >= for >
ExceedsMinPixels_AtLeast(count, min_pixels) == count >= min_pixels

\* the comparison of the return statement
ExceedsMinPixels(count, min_pixels) == count > min_pixels

\* The outcome of the call has_clutter(image, threshold, min_pixels): exc is
\* the exception raised ("none" when the call returns), ret the value
\* returned, image the argument array as the call leaves it (np.gradient,
\* ** and > all build new arrays).
has_clutter(image, threshold, min_pixels) ==
    IF ~GradientDefined(image)
    THEN [exc |-> "ValueError", ret |-> FALSE, image |-> image]
    ELSE [exc |-> "none",
          ret |-> ExceedsMinPixels(
                      Cardinality(ClutterPixels(image, threshold)), min_pixels),
          image |-> image]

(***************************************************************************)
(* is_rainy                                                                *)
(***************************************************************************)
\* has_clutter's default arguments
DefaultThreshold == 500

DefaultMinPixels == 130

\* remove_small_objects(..., min_size=9, connectivity=8)
MinSize == 9

Connectivity == 8

\* np.sum(true_showers) > 3000
RainThreshold == 3000

Abs(x) == IF x < 0 THEN 0 - x ELSE x

\* ndi.generate_binary_structure(2, connectivity): the offsets of the 3x3
\* neighbourhood whose city-block distance from the centre is <= connectivity
\* (a connectivity below 1 counts as 1)
Footprint(connectivity) ==
    LET k == IF connectivity < 1 THEN 1 ELSE connectivity
    IN  {d \in (-1..1) \X (-1..1) : Abs(d[1]) + Abs(d[2]) <= k}

\* image > 0, as the set of its true cells
SignalMask(image) == {p \in Cells(image) : image[p[1]][p[2]] > 0}

\* the cells of S that touch a cell of T under the footprint
Neighbours(S, T, fp) ==
    {q \in S : \E p \in T : <<q[1] - p[1], q[2] - p[2]>> \in fp}

RECURSIVE Grow(_, _, _, _)
\* ndi.label: the connected component of S that holds the cells of frontier
Grow(S, done, frontier, fp) ==
    IF frontier = {} THEN done
    ELSE LET seen == done \cup frontier
         IN  Grow(S, seen, Neighbours(S \ seen, frontier, fp), fp)

Component(S, p, fp) == Grow(S, {}, {p}, fp)

\* too_small with <= for <
TooSmall_Inclusive(size, min_size) == size <= min_size

\* too_small = component_sizes < min_size
TooSmall(size, min_size) == size < min_size

RECURSIVE KeepLarge(_, _, _)
\* the cells of S left after the too-small components are cleared
KeepLarge(S, min_size, fp) ==
    IF S = {} THEN {}
    ELSE LET p == CHOOSE q \in S : TRUE
             comp == Component(S, p, fp)
             rest == KeepLarge(S \ comp, min_size, fp)
         IN  IF TooSmall(Cardinality(comp), min_size) THEN rest
             ELSE comp \cup rest

\* morphology.remove_small_objects(ar, min_size, connectivity) on the true
\* cells of a boolean array; the result is a new array
remove_small_objects(ar, min_size, connectivity) ==
    KeepLarge(ar, min_size, Footprint(connectivity))

\* numpy broadcasting of two 2-D shapes: along each axis the lengths are
\* equal or one of them is 1
Broadcastable(a, b) ==
    /\ (Rows(a) = Rows(b) \/ Rows(a) = 1 \/ Rows(b) = 1)
    /\ (Cols(a) = Cols(b) \/ Cols(a) = 1 \/ Cols(b) = 1)

Max(x, y) == IF x >= y THEN x ELSE y

\* the cell of a that lands on position (r, c) of the broadcast result
Bc(a, r, c) ==
    a[IF Rows(a) = 1 THEN 1 ELSE r][IF Cols(a) = 1 THEN 1 ELSE c]

\* true_showers = image * valid_objects * CLUTTERMASK
true_showers(image, valid_objects, mask) ==
    LET kept == [r \in 1..Rows(image) |->
                    [c \in 1..Cols(image) |->
                        IF <<r, c>> \in valid_objects
                        THEN image[r][c] ELSE 0]]
    IN  [r \in 1..Max(Rows(image), Rows(mask)) |->
            [c \in 1..Max(Cols(image), Cols(mask)) |->
                Bc(kept, r, c) * Bc(mask, r, c)]]

\* np.sum(true_showers), where the product can be formed
ShowerIntensity(image, mask) ==
    np_sum(true_showers(image,
                        remove_small_objects(SignalMask(image), MinSize,
                                             Connectivity),
                        mask))

\* the comparison with >= for >
ExceedsRainThreshold_AtLeast(total) == total >= RainThreshold

\* the comparison np.sum(true_showers) > 3000
ExceedsRainThreshold(total) == total > RainThreshold

\* is_rainy with the product formed in place (image *= valid_objects)
is_rainy_InPlace(image, mask) ==
    LET valid == remove_small_objects(SignalMask(image), MinSize, Connectivity)
        kept == [r \in 1..Rows(image) |->
                    [c \in 1..Cols(image) |->
                        IF <<r, c>> \in valid THEN image[r][c] ELSE 0]]
    IN  IF ~Broadcastable(image, mask)
        THEN [exc |-> "ValueError", ret |-> FALSE, total |-> -1,
              image |-> kept, CLUTTERMASK |-> mask]
        ELSE LET total == np_sum(true_showers(kept, valid, mask))
                 hc == has_clutter(kept, DefaultThreshold, DefaultMinPixels)
             IN  IF total > RainThreshold
                 THEN [exc |-> hc.exc, ret |-> (hc.exc = "none" /\ ~hc.ret),
                       total |-> total, image |-> kept, CLUTTERMASK |-> mask]
                 ELSE [exc |-> "none", ret |-> FALSE, total |-> total,
                       image |-> kept, CLUTTERMASK |-> mask]

\* The outcome of the call is_rainy(image) under the module-level
\* CLUTTERMASK: exc and ret as for has_clutter, total the value of
\* np.sum(true_showers) (-1 when the product raised), image and CLUTTERMASK
\* the two arrays as the call leaves them (`image > 0`, remove_small_objects
\* without out= and * all build new arrays).  Python's `and` calls
\* has_clutter only when the sum exceeds 3000.
is_rainy(image, mask) ==
    IF ~Broadcastable(image, mask)
    THEN [exc |-> "ValueError", ret |-> FALSE, total |-> -1,
          image |-> image, CLUTTERMASK |-> mask]
    ELSE LET total == ShowerIntensity(image, mask)
         IN  IF ~ExceedsRainThreshold(total)
             THEN [exc |-> "none", ret |-> FALSE, total |-> total,
                   image |-> image, CLUTTERMASK |-> mask]
             ELSE LET hc == has_clutter(image, DefaultThreshold,
                                        DefaultMinPixels)
                  IN  [exc |-> hc.exc, ret |-> (hc.exc = "none" /\ ~hc.ret),
                       total |-> total, image |-> hc.image,
                       CLUTTERMASK |-> mask]

(***************************************************************************)
(* main: the batch labeller                                                *)
(*                                                                         *)
(* File names are modelled by integers, ordered as the names sort.         *)
(***************************************************************************)
\* insertion of x into the ascending sequence s
RECURSIVE Insert(_, _)
Insert(x, s) ==
    IF s = <<>> THEN <<x>>
    ELSE IF x <= Head(s) THEN <<x>> \o s
    ELSE <<Head(s)>> \o Insert(x, Tail(s))

RECURSIVE SortAscending(_)
SortAscending(s) == IF s = <<>> THEN <<>> ELSE Insert(Head(s), SortAscending(Tail(s)))

\* the listing left in the order glob gave it
sorted_Unsorted(listing) == listing

\* sorted(data_dir.glob("*.h5"))
sorted(listing) == SortAscending(listing)

\* data_dir.glob("*.h5"): the names of the directory in any order
Glob(d) ==
    LET n == Cardinality(DOMAIN d)
    IN  {s \in [1..n -> DOMAIN d] : \A i, j \in 1..n : s[i] = s[j] => i = j}

\* the except branch labelling the file not rainy
ExceptLabel_False == "False"

\* the value the except branch gives the label
ExceptLabel == "None"

\* One pass of the try statement for a file's content: the label assigned to
\* `rainy` ("True", "False", or "None" after an exception) and the array
\* bound to `image` afterwards (prev when h5py raised before the assignment).
TryLabel(content, mask, prev) ==
    IF ~content.ok
    THEN [rainy |-> ExceptLabel, image |-> prev]
    ELSE LET loaded == read_radar_file(content.image_data, content.ooi_value)
             out == is_rainy(loaded, mask)
         IN  [rainy |-> IF out.exc # "none" THEN ExceptLabel
                        ELSE IF out.ret THEN "True" ELSE "False",
              image |-> out.image]

\* df.to_csv: pandas writes None as the empty field
CsvField(rainy) == IF rainy = "None" THEN "" ELSE rainy

to_csv(rows) ==
    [k \in 1..Len(rows) |->
        [filename |-> rows[k].filename, rainy |-> CsvField(rows[k].rainy)]]

(***************************************************************************)
(* Bounds and inputs                                                       *)
(***************************************************************************)
\* side of the square radar grid and of the bundled clutter mask
Side == 12

\* side of the small grids whose patterns are enumerated
WinSide == 4

\* number of cells of a small grid that take every on/off pattern
NFree == 9

\* number of file names the data directory may hold
MaxFiles == 3

\* a grid of h rows and w columns holding v in every cell
Full(h, w, v) == [r \in 1..h |-> [c \in 1..w |-> v]]

Zero(h, w) == Full(h, w, 0)

Ones(h, w) == Full(h, w, 1)

\* position of a cell in row-major order
Pos(r, c, w) == (r - 1) * w + c

\* a WinSide grid: the cells of P (among the first NFree in row-major order)
\* hold a signal, a in the corner and b elsewhere
Window(P, a, b) ==
    [r \in 1..WinSide |->
        [c \in 1..WinSide |->
            IF Pos(r, c, WinSide) \in P
            THEN (IF Pos(r, c, WinSide) = 1 THEN a ELSE b)
            ELSE 0]]

\* a Side grid whose first n cells carry columns of amplitude amp, two
\* columns wide and two columns apart
Noise(n, amp) ==
    [r \in 1..Side |->
        [c \in 1..Side |->
            IF Pos(r, c, Side) <= n /\ (c % 4) \in {2, 3} THEN amp ELSE 0]]

\* a Side grid with n cells of value v along the main diagonal
Diagonal(n, v) ==
    [r \in 1..Side |-> [c \in 1..Side |-> IF r = c /\ r <= n THEN v ELSE 0]]

\* a mask (a boolean array, 0/1 in the product) that is false in its first
\* k cells
MaskFrom(h, w, k) ==
    [r \in 1..h |-> [c \in 1..w |-> IF Pos(r, c, w) <= k THEN 0 ELSE 1]]

\* corner and other values of the largest patterns: sums of 3000, 3001, 3600
WindowValues == {<<600, 300>>, <<601, 300>>, <<400, 400>>}

\* pairs <<CLUTTERMASK, image>> the functions are applied to
WindowInputs ==
    {<<Ones(WinSide, WinSide), Window(P, 600, 300)>> : P \in SUBSET (1..NFree)}
    \cup {<<m, Window(P, v[1], v[2])>> :
            P \in {Q \in SUBSET (1..NFree) : Cardinality(Q) >= MinSize - 1},
            v \in WindowValues,
            m \in {Ones(WinSide, WinSide), MaskFrom(WinSide, WinSide, 1)}}

\* numbers of noisy cells: every sixth, and each of the last two rows' worth
NoiseSizes ==
    {n \in 0..(Side * Side) : n % 6 = 0 \/ n >= Side * Side - 2 * Side}

\* amplitude 1002 gives interior gradients of 501, amplitude 1000 of 500
NoiseInputs ==
    {<<Ones(Side, Side), Noise(n, 1002)>> : n \in NoiseSizes}
    \cup {<<Ones(Side, Side), Noise(Side * Side, 1000)>>}

\* a Side grid with a blob of n cells of value v, filled row by row into
\* columns 3..7 from row 3 down
Block(n, v) ==
    [r \in 1..Side |->
        [c \in 1..Side |->
            IF r >= 3 /\ c \in 3..7 /\ Pos(r - 2, c - 2, 5) <= n
            THEN v ELSE 0]]

\* blobs of 5 and of 20 cells of value 200
BlockInputs == {<<Ones(Side, Side), Block(n, 200)>> : n \in {5, 20}}

DiagonalInputs ==
    {<<Ones(Side, Side), Diagonal(n, 400)>> : n \in 0..Side}
    \cup {<<MaskFrom(Side, Side, Side), Diagonal(n, 400)>> : n \in 0..Side}

\* grids of other shapes than the mask
OddShapeInputs ==
    {<<Ones(Side, Side), g>> :
        g \in {Zero(Side, Side), Zero(Side - 2, Side - 2), Zero(1, 1),
               Zero(1, Side), Full(1, Side, 400),
               Full(Side - 2, Side - 2, 400)}}

\* stored grids with a sentinel, a corner value and data
StoredValues == {0, 7, 200, 255}

StoredInputs ==
    {<<Ones(2, 2), <<<<a, b>>, <<c, d>>>>>> : a, b, c, d \in StoredValues}

FnInputs ==
    WindowInputs \cup NoiseInputs \cup BlockInputs \cup DiagonalInputs
        \cup OddShapeInputs \cup StoredInputs

\* calibration_out_of_image values a file may declare
OoiValues == {200, 255}

\* arguments has_clutter is called with, <<threshold, min_pixels>>
ClutterArgs == {<<DefaultThreshold, DefaultMinPixels>>, <<100, 3>>}

\* the contents of a radar file: unreadable, or the two datasets
Corrupt == [ok |-> FALSE, image_data |-> <<>>, ooi_value |-> 0]

\* a readable file: a WinSide grid framed by the sentinel 255
Readable(g) == [ok |-> TRUE, image_data |-> g, ooi_value |-> 255]

\* sentinel everywhere
DryFile == Readable(Full(WinSide, WinSide, 255))

\* a 3x3 shower of value 400 below the sentinel row and right of the
\* sentinel column
RainyFile ==
    Readable([r \in 1..WinSide |->
                 [c \in 1..WinSide |->
                     IF r \in 2..4 /\ c \in 2..4 THEN 400 ELSE 255]])

\* the same shower, too weak to pass 3000
WeakFile ==
    Readable([r \in 1..WinSide |->
                 [c \in 1..WinSide |->
                     IF r \in 2..4 /\ c \in 2..4 THEN 300 ELSE 255]])

\* a grid one row and one column short
ShortFile == Readable(Full(WinSide - 1, WinSide - 1, 255))

FileContents == {Corrupt, DryFile, RainyFile, WeakFile, ShortFile}

\* cluttermask.npy on disk: missing, of the grids' shape, or one row and one
\* column short
Assets ==
    {[present |-> FALSE, data |-> <<>>],
     [present |-> TRUE, data |-> Ones(WinSide, WinSide)],
     [present |-> TRUE, data |-> MaskFrom(WinSide, WinSide, WinSide + 2)],
     [present |-> TRUE, data |-> Ones(WinSide - 1, WinSide - 1)]}

(***************************************************************************)
(* State                                                                   *)
(***************************************************************************)
VARIABLES
    pc,           \* where the process is: import, main, loop, done, aborted, fn
    asset,        \* cluttermask.npy on disk
    CLUTTERMASK,  \* the module-level array (<<>> before the import)
    dir,          \* the data directory: file name -> contents
    radar_files,  \* main's sorted list of files
    idx,          \* position of the for loop in radar_files
    image,        \* the array bound to `image` in the caller
    results,      \* main's list of records
    report,       \* the rows of rainy_labels.csv
    call          \* the last function call of the harness and its outcome

vars ==
    <<pc, asset, CLUTTERMASK, dir, radar_files, idx, image, results, report,
      call>>

NoCall == [op |-> "init", args |-> <<>>, before |-> <<>>, exc |-> "none",
           ret |-> FALSE, total |-> 0]

(***************************************************************************)
(* The program: import of the module, then main()                          *)
(***************************************************************************)
Init ==
    /\ pc = "import"
    /\ asset \in Assets
    /\ CLUTTERMASK = <<>>
    /\ \E S \in SUBSET (1..MaxFiles) : dir \in [S -> FileContents]
    /\ radar_files = <<>>
    /\ idx = 1
    /\ image = <<>>
    /\ results = <<>>
    /\ report = <<>>
    /\ call = NoCall

\* CLUTTERMASK = np.load(...): the array is bound at import
LoadMask ==
    /\ pc = "import"
    /\ asset.present
    /\ CLUTTERMASK' = asset.data
    /\ pc' = "main"
    /\ UNCHANGED <<asset, dir, radar_files, idx, image, results, report, call>>

\* np.load raises FileNotFoundError: the import fails and main never runs
LoadMaskFails ==
    /\ pc = "import"
    /\ ~asset.present
    /\ pc' = "aborted"
    /\ UNCHANGED <<asset, CLUTTERMASK, dir, radar_files, idx, image, results,
                   report, call>>

\* radar_files = sorted(data_dir.glob("*.h5")); results = []
MainStart ==
    /\ pc = "main"
    /\ \E listing \in Glob(dir) : radar_files' = sorted(listing)
    /\ results' = <<>>
    /\ idx' = 1
    /\ pc' = "loop"
    /\ UNCHANGED <<asset, CLUTTERMASK, dir, image, report, call>>

\* one iteration of the for loop: the try statement and results.append
ProcessFile ==
    /\ pc = "loop"
    /\ idx <= Len(radar_files)
    /\ LET f == radar_files[idx]
           t == TryLabel(dir[f], CLUTTERMASK, image)
       IN  /\ image' = t.image
           /\ results' = Append(results, [filename |-> f, rainy |-> t.rainy])
    /\ idx' = idx + 1
    /\ UNCHANGED <<pc, asset, CLUTTERMASK, dir, radar_files, report, call>>

\* df = pd.DataFrame(results); df.to_csv(...)
WriteReport ==
    /\ pc = "loop"
    /\ idx > Len(radar_files)
    /\ report' = to_csv(results)
    /\ pc' = "done"
    /\ UNCHANGED <<asset, CLUTTERMASK, dir, radar_files, idx, image, results,
                   call>>

Next == LoadMask \/ LoadMaskFails \/ MainStart \/ ProcessFile \/ WriteReport

Spec == Init /\ [][Next]_vars

(***************************************************************************)
(* The functions applied to drawn inputs, in any order                     *)
(***************************************************************************)
FnInit ==
    /\ pc = "fn"
    /\ \E in \in FnInputs :
          /\ asset = [present |-> TRUE, data |-> in[1]]
          /\ CLUTTERMASK = in[1]
          /\ image = in[2]
    /\ dir = <<>>
    /\ radar_files = <<>>
    /\ idx = 1
    /\ results = <<>>
    /\ report = <<>>
    /\ call = NoCall

\* image = read_radar_file(f) for a file that stores the current grid
FnRead ==
    /\ pc = "fn"
    /\ \E ooi \in OoiValues :
          /\ image' = read_radar_file(image, ooi)
          /\ call' = [op |-> "read_radar_file", args |-> <<ooi>>,
                      before |-> image, exc |-> "none", ret |-> FALSE,
                      total |-> 0]
    /\ UNCHANGED <<pc, asset, CLUTTERMASK, dir, radar_files, idx, results,
                   report>>

\* has_clutter(image, threshold, min_pixels)
FnHasClutter ==
    /\ pc = "fn"
    /\ \E a \in ClutterArgs :
          LET out == has_clutter(image, a[1], a[2])
          IN  /\ image' = out.image
              /\ call' = [op |-> "has_clutter", args |-> a, before |-> image,
                          exc |-> out.exc, ret |-> out.ret, total |-> 0]
    /\ UNCHANGED <<pc, asset, CLUTTERMASK, dir, radar_files, idx, results,
                   report>>

\* is_rainy(image)
FnIsRainy ==
    /\ pc = "fn"
    /\ LET out == is_rainy(image, CLUTTERMASK)
       IN  /\ image' = out.image
           /\ CLUTTERMASK' = out.CLUTTERMASK
           /\ call' = [op |-> "is_rainy", args |-> <<>>, before |-> image,
                       exc |-> out.exc, ret |-> out.ret, total |-> out.total]
    /\ UNCHANGED <<pc, asset, dir, radar_files, idx, results, report>>

FnNext == FnRead \/ FnHasClutter \/ FnIsRainy

FnSpec == FnInit /\ [][FnNext]_vars

(***************************************************************************)
(* The claims' own terms                                                   *)
(***************************************************************************)
Shape(g) == <<Rows(g), Cols(g)>>

Clamp(i, n) == IF i < 1 THEN 1 ELSE IF i > n THEN n ELSE i

\* The squared gradient magnitude of a cell exceeds t^2, the gradient taken
\* as the difference quotient between the two neighbours of the cell along
\* an axis, the cell itself standing in for a neighbour off the grid: the
\* central difference in the interior, the one-sided difference at an edge.
\* With dx/sx and dy/sy the quotients, (dx/sx)^2 + (dy/sy)^2 > t^2 is
\* compared after multiplying by (sx * sy)^2.
IsClutterPixel(g, r, c, t) ==
    LET ru == Clamp(r - 1, Rows(g))
        rd == Clamp(r + 1, Rows(g))
        cl == Clamp(c - 1, Cols(g))
        cr == Clamp(c + 1, Cols(g))
        dx == g[rd][c] - g[ru][c]
        dy == g[r][cr] - g[r][cl]
        sx == rd - ru
        sy == cr - cl
    IN  dx * dx * sy * sy + dy * dy * sx * sx > t * t * sx * sx * sy * sy

ClutterCount(g, t) ==
    Cardinality({p \in Cells(g) : IsClutterPixel(g, p[1], p[2], t)})

\* two cells are 8-neighbours: they differ by at most one row and one column
Adjacent8(p, q) ==
    /\ p # q
    /\ p[1] - q[1] \in -1..1
    /\ p[2] - q[2] \in -1..1

RECURSIVE Reach(_, _)
\* the cells of S joined to a cell of R by a chain of 8-neighbours in S
Reach(S, R) ==
    LET more == {q \in S \ R : \E p \in R : Adjacent8(p, q)}
    IN  IF more = {} THEN R ELSE Reach(S, R \cup more)

\* the positive cells of g whose 8-connected component has at least k cells
LargeBlobCells(g, k) ==
    LET pos == {p \in Cells(g) : g[p[1]][p[2]] > 0}
    IN  {p \in pos : Cardinality(Reach(pos, {p})) >= k}

\* the sum over all cells of grid * filtered signal mask * clutter mask, for
\* a grid of the mask's shape
MaskedIntensity(g, m) ==
    LET kept == LargeBlobCells(g, 9)
    IN  SumOver(kept, [p \in kept |-> g[p[1]][p[2]] * m[p[1]][p[2]]])

IsZeroGrid(g) == \A p \in Cells(g) : g[p[1]][p[2]] = 0

C5_AtLeastMinPixelsIsClutter ==
    (/\ call.op = "has_clutter"
     /\ call.exc = "none"
     /\ ClutterCount(call.before, call.args[1]) >= call.args[2])
        => call.ret = TRUE

(***************************************************************************)
(* C3: for a grid of the Clutter Mask's shape, is_rainy is true iff the    *)
(* sum over all cells of grid * filtered signal mask * clutter mask is     *)
(* strictly greater than 3000 and has_clutter with threshold 500 and       *)
(* min_pixels 130 is false.                                                *)
(***************************************************************************)
C3_RainyIffIntenseAndNotCluttered ==
    (/\ call.op = "is_rainy"
     /\ Shape(call.before) = Shape(CLUTTERMASK)
     /\ GradientDefined(call.before))
        => /\ call.exc = "none"
           /\ call.ret <=>
                 /\ MaskedIntensity(call.before, CLUTTERMASK) > 3000
                 /\ ~(ClutterCount(call.before, 500) > 130)

\* a cluttered grid whose sum exceeds 3000 is not rainy
C3_Witness ==
    /\ call.op = "is_rainy"
    /\ Shape(call.before) = Shape(CLUTTERMASK)
    /\ MaskedIntensity(call.before, CLUTTERMASK) > 3000
    /\ ClutterCount(call.before, 500) > 130
    /\ call.ret = FALSE

C7_SentinelAndCornerZeroed ==
    call.op = "read_radar_file" =>
        LET stored == call.before
            ooi == call.args[1]
            corner == IF stored[1][1] = ooi THEN 0 ELSE stored[1][1]
        IN  /\ Shape(image) = Shape(stored)
            /\ \A p \in Cells(stored) :
                  image[p[1]][p[2]] =
                      IF stored[p[1]][p[2]] = ooi \/ stored[p[1]][p[2]] = corner
                      THEN 0 ELSE stored[p[1]][p[2]]

\* the sentinel differs from the corner value, both occur in other cells and
\* are zeroed, and a cell with data keeps it
C7_Witness ==
    /\ call.op = "read_radar_file"
    /\ call.before[1][1] # call.args[1]
    /\ call.before[1][1] # 0
    /\ \E p, q, d \in Cells(call.before) :
          /\ p # <<1, 1>>
          /\ call.before[p[1]][p[2]] = call.before[1][1]
          /\ image[p[1]][p[2]] = 0
          /\ call.before[q[1]][q[2]] = call.args[1]
          /\ image[q[1]][q[2]] = 0
          /\ image[d[1]][d[2]] # 0

(***************************************************************************)
(* C8: for an all-zero grid and for a grid smaller than the expected       *)
(* dimensions, is_rainy returns a definite boolean (false for the all-zero *)
(* grid) and never raises.                                                 *)
(***************************************************************************)
C8_EdgeCasesReturnBoolean ==
    (/\ call.op = "is_rainy"
     /\ \/ IsZeroGrid(call.before)
        \/ (Rows(call.before) <= Rows(CLUTTERMASK)
            /\ Cols(call.before) <= Cols(CLUTTERMASK)))
        => /\ call.exc = "none"
           /\ IsZeroGrid(call.before) => call.ret = FALSE

(***************************************************************************)
(* C10: has_clutter and is_rainy are pure: a call leaves the grid passed   *)
(* to it and the Clutter Mask with the values they held before, and its    *)
(* result is the one the function gives for that grid, those arguments and *)
(* the mask as it was loaded, whatever calls came before; so two calls     *)
(* with equal grids and arguments return equal results.                    *)
(***************************************************************************)
C10_CallsArePure ==
    [][call'.op \in {"has_clutter", "is_rainy"} =>
          /\ call'.before = image
          /\ image' = image
          /\ CLUTTERMASK' = CLUTTERMASK
          /\ CLUTTERMASK' = asset.data
          /\ call'.op = "is_rainy" =>
                LET o == is_rainy(call'.before, asset.data)
                IN  <<call'.exc, call'.ret>> = <<o.exc, o.ret>>
          /\ call'.op = "has_clutter" =>
                LET o == has_clutter(call'.before, call'.args[1],
                                     call'.args[2])
                IN  <<call'.exc, call'.ret>> = <<o.exc, o.ret>>]_vars

\* is_rainy has run has_clutter (the sum exceeded 3000) on a grid that holds
\* a blob too small to count, and grid and mask are as they were
C10_Witness ==
    /\ call.op = "is_rainy"
    /\ call.total > 3000
    /\ image = call.before
    /\ CLUTTERMASK = asset.data
    /\ LargeBlobCells(image, 9) # {p \in Cells(image) : image[p[1]][p[2]] > 0}

(***************************************************************************)
(* The batch labeller's claims                                             *)
(***************************************************************************)
\* processing the file raises, at load or at classification
Fails(content, mask) ==
    \/ ~content.ok
    \/ is_rainy(read_radar_file(content.image_data, content.ooi_value),
                mask).exc # "none"

\* the row a file gets when it is processed alone
OwnField(content, mask) ==
    IF Fails(content, mask) THEN ""
    ELSE IF is_rainy(read_radar_file(content.image_data, content.ooi_value),
                     mask).ret
    THEN "True" ELSE "False"

RowsWith(fields) == {k \in 1..Len(report) : report[k].rainy \in fields}

(***************************************************************************)
(* C1: the Label Report holds exactly one record per input file, no        *)
(* duplicates and no omissions, whichever files fail, and the records are  *)
(* in sorted-filename order.                                               *)
(***************************************************************************)
C1_OneRowPerFileSorted ==
    pc = "done" =>
        /\ Len(report) = Cardinality(DOMAIN dir)
        /\ {report[k].filename : k \in 1..Len(report)} = DOMAIN dir
        /\ \A j, k \in 1..Len(report) :
              j < k => report[j].filename < report[k].filename

\* a finished run over three files of which one fails
C1_Witness ==
    /\ pc = "done"
    /\ Len(report) = 3
    /\ Cardinality({f \in DOMAIN dir : Fails(dir[f], CLUTTERMASK)}) = 1

(***************************************************************************)
(* C2: a failure while loading or classifying one file is recorded as an   *)
(* unknown label for that file, never as false, does not stop the loop and *)
(* does not change the label of any other file: one corrupt file among N   *)
(* valid files gives N known labels and 1 unknown label.                   *)
(***************************************************************************)
C2_FailureIsolated ==
    pc = "done" =>
        /\ Len(report) = Len(radar_files)
        /\ \A k \in 1..Len(report) :
              report[k].rainy = OwnField(dir[radar_files[k]], asset.data)
        /\ Cardinality(RowsWith({""})) =
              Cardinality({f \in DOMAIN dir : Fails(dir[f], asset.data)})
        /\ Cardinality(RowsWith({"True", "False"})) =
              Cardinality({f \in DOMAIN dir : ~Fails(dir[f], asset.data)})

\* a corrupt file between a rainy and a dry one: two known labels, one unknown
C2_Witness ==
    /\ pc = "done"
    /\ Len(report) = 3
    /\ ~dir[radar_files[2]].ok
    /\ report[1].rainy = "True"
    /\ report[2].rainy = ""
    /\ report[3].rainy = "False"

\* the mask on disk has another shape than the grid of some readable file
MaskMismatch ==
    /\ asset.present
    /\ \E f \in DOMAIN dir :
          dir[f].ok /\ Shape(dir[f].image_data) # Shape(asset.data)

(***************************************************************************)
(* C9: if the Clutter Mask asset is absent or its dimensions do not match  *)
(* the input grids, the run aborts at startup before any file is           *)
(* processed; it never ends in a completed report.                         *)
(***************************************************************************)
C9_BadMaskNeverCompletes ==
    (~asset.present \/ MaskMismatch) => (pc # "done" /\ report = <<>>)

====
